---- MODULE Spec2Model ----
(***************************************************************************)
(* Model of the file utility module file_operation.py.                     *)
(*                                                                         *)
(* Paths are sequences of one-character strings, file data are sequences   *)
(* of byte values (0..255), text is a sequence of Unicode code points.     *)
(* The file system is a function from the paths that exist to their nodes  *)
(* (POSIX semantics: "/" separator, os.linesep = "\n").                    *)
(* One behaviour is one environment (a file system and a caller's list)    *)
(* followed by one call of a function of the module.                       *)
(***************************************************************************)
EXTENDS Integers, Sequences, FiniteSets, TLC

VARIABLES fs, fs0, heap, pc, call, ret, exc, exc_arg

vars == <<fs, fs0, heap, pc, call, ret, exc, exc_arg>>

\* ---------------------------------------------------------------- bounds
MaxLen == 3       \* longest src_list / file_path_list
MaxBytes == 2     \* longest generated file content

\* ------------------------------------------------------------- constants
LF == 10          \* '\n'
CR == 13          \* '\r'

\* ------------------------------------------------------ sequence helpers
RECURSIVE SeqsUpTo(_, _)
SeqsUpTo(S, n) ==
    IF n = 0 THEN {<<>>}
    ELSE LET R == SeqsUpTo(S, n - 1)
         IN R \cup {Append(s, x) : s \in {r \in R : Len(r) = n - 1}, x \in S}

Reverse(s) == [i \in 1..Len(s) |-> s[Len(s) + 1 - i]]

Range(s) == {s[i] : i \in 1..Len(s)}

\* index of the last "/" of p, 0 when there is none
LastSep(p) ==
    IF \E i \in 1..Len(p) : p[i] = "/"
    THEN CHOOSE i \in 1..Len(p) : p[i] = "/" /\ \A j \in (i + 1)..Len(p) : p[j] # "/"
    ELSE 0

\* ------------------------------------------------------------- os.path
os_path_basename(p) == SubSeq(p, LastSep(p) + 1, Len(p))

RECURSIVE rstrip_sep(_)
rstrip_sep(p) ==
    IF p # <<>> /\ p[Len(p)] = "/" THEN rstrip_sep(SubSeq(p, 1, Len(p) - 1)) ELSE p

\* posixpath.dirname: head up to the last "/", trailing separators removed
\* unless the head is made of separators only
os_path_dirname(p) ==
    LET head == SubSeq(p, 1, LastSep(p))
    IN IF head # <<>> /\ rstrip_sep(head) # <<>> THEN rstrip_sep(head) ELSE head

\* posixpath.join(a, b)
os_path_join(a, b) ==
    IF b # <<>> /\ b[1] = "/" THEN b
    ELSE IF a = <<>> \/ a[Len(a)] = "/" THEN a \o b
    ELSE a \o <<"/">> \o b

\* ---------------------------------------------------------- file system
\* the node a path resolves to: "dir", "file", "none" (ENOENT) or
\* "notdir" (ENOTDIR: a component used as a directory is a regular file)
RECURSIVE Kind(_, _)
Kind(f, p) ==
    IF p = <<>> THEN "none"
    ELSE IF rstrip_sep(p) = <<>> THEN "dir"
    ELSE IF p[Len(p)] = "/"
         THEN LET k == Kind(f, rstrip_sep(p))
              IN IF k = "file" THEN "notdir" ELSE k
    ELSE IF p \in DOMAIN f THEN f[p].kind
    ELSE LET up == Kind(f, os_path_dirname(p))
         IN IF up \in {"file", "notdir"} THEN "notdir" ELSE "none"

os_path_isfile(f, p) == Kind(f, p) = "file"

\* an argument of os.path.isdir: a path, or the built-in type object str
PathArg(p) == [is_path |-> TRUE, path |-> p]
StrType == [is_path |-> FALSE, path |-> <<>>]

\* os.path.isdir: os.stat raises TypeError for an argument that is not a
\* path; genericpath.isdir only catches OSError and ValueError
os_path_isdir(f, x) ==
    IF ~x.is_path THEN [exc |-> "TypeError", val |-> FALSE]
    ELSE [exc |-> "none", val |-> Kind(f, x.path) = "dir"]

Data(f, p) == f[rstrip_sep(p)].data

FileNode(d) == [kind |-> "file", data |-> d]
DirNode == [kind |-> "dir", data |-> <<>>]

\* the file system with regular file p holding d
FsWrite(f, p, d) == [q \in DOMAIN f \cup {p} |-> IF q = p THEN FileNode(d) ELSE f[q]]

\* errno of opening p for reading
OpenReadErr(f, p) ==
    LET k == Kind(f, p)
    IN CASE k = "file" -> "none"
         [] k = "dir" -> "IsADirectoryError"
         [] k = "notdir" -> "NotADirectoryError"
         [] OTHER -> "FileNotFoundError"

\* errno of opening p for writing (O_CREAT | O_TRUNC)
OpenWriteErr(f, p) ==
    LET k == Kind(f, p)
    IN CASE k = "file" -> "none"
         [] k = "dir" -> "IsADirectoryError"
         [] k = "notdir" -> "NotADirectoryError"
         [] p = <<>> -> "FileNotFoundError"
         [] Kind(f, os_path_dirname(p)) # "dir" -> "FileNotFoundError"
         [] p[Len(p)] = "/" -> "IsADirectoryError"
         [] OTHER -> "none"

\* ---------------------------------------------------------------- codecs
IsCont(b) == b >= 128 /\ b <= 191

\* bytes.decode(encoding): [ok, text]; the one- and two-byte forms of UTF-8
\* (code points below U+0800), every other lead byte is a decode error
RECURSIVE decode_utf8(_)
decode_utf8(b) ==
    IF b = <<>> THEN [ok |-> TRUE, text |-> <<>>]
    ELSE IF b[1] < 128
         THEN LET r == decode_utf8(Tail(b))
              IN [ok |-> r.ok, text |-> <<b[1]>> \o r.text]
    ELSE IF b[1] >= 194 /\ b[1] <= 223 /\ Len(b) >= 2 /\ IsCont(b[2])
         THEN LET r == decode_utf8(SubSeq(b, 3, Len(b)))
              IN [ok |-> r.ok, text |-> <<(b[1] - 192) * 64 + (b[2] - 128)>> \o r.text]
    ELSE [ok |-> FALSE, text |-> <<>>]

decode(b, encoding) ==
    IF encoding = "latin-1" THEN [ok |-> TRUE, text |-> b]
    ELSE decode_utf8(b)

RECURSIVE encode_utf8(_)
encode_utf8(t) ==
    IF t = <<>> THEN <<>>
    ELSE (IF t[1] < 128 THEN <<t[1]>>
          ELSE <<192 + (t[1] \div 64), 128 + (t[1] % 64)>>) \o encode_utf8(Tail(t))

\* str.encode(encoding): [ok, data]
encode(t, encoding) ==
    IF encoding = "latin-1"
    THEN IF \A i \in 1..Len(t) : t[i] < 256 THEN [ok |-> TRUE, data |-> t]
         ELSE [ok |-> FALSE, data |-> <<>>]
    ELSE [ok |-> TRUE, data |-> encode_utf8(t)]

\* faulty variant: the file is read without newline translation (newline='')
universal_newlines_untranslated(t) == t

\* text mode with newline=None reads "\r\n" and "\r" as "\n"
RECURSIVE universal_newlines(_)
universal_newlines(t) ==
    IF t = <<>> THEN <<>>
    ELSE IF t[1] = CR
         THEN <<LF>> \o universal_newlines(
                  IF Len(t) >= 2 /\ t[2] = LF THEN SubSeq(t, 3, Len(t)) ELSE Tail(t))
    ELSE <<t[1]>> \o universal_newlines(Tail(t))

\* str.split(sep) for a one-character separator
RECURSIVE str_split(_, _)
str_split(t, sep) ==
    IF \E i \in 1..Len(t) : t[i] = sep
    THEN LET i == CHOOSE k \in 1..Len(t) : t[k] = sep /\ \A j \in 1..(k - 1) : t[j] # sep
         IN <<SubSeq(t, 1, i - 1)>> \o str_split(SubSeq(t, i + 1, Len(t)), sep)
    ELSE <<t>>

\* ------------------------------------------------------------- results
None == [type |-> "None", val |-> <<>>]

Result(e, v, f, h) == [exc |-> e, arg |-> <<>>, ret |-> v, fs |-> f, heap |-> h]

\* an exception of class e carrying the file name a
Raise(e, a, f, h) == [exc |-> e, arg |-> a, ret |-> None, fs |-> f, heap |-> h]

\* ------------------------------------------------------------ read_file
\* open(filepath, mode, encoding=encoding): the arguments are validated
\* before the file is touched
builtin_open_err(f, filepath, mode, encoding) ==
    IF mode \in {"rb", "wb"} /\ encoding # "None" THEN "ValueError"
    ELSE IF mode \in {"r", "rb"} THEN OpenReadErr(f, filepath)
    ELSE OpenWriteErr(f, filepath)

\* file_obj.read() of a text-mode file: [exc, text]
text_read(f, filepath, encoding) ==
    LET d == decode(Data(f, filepath), encoding)
    IN IF d.ok THEN [exc |-> "none", text |-> universal_newlines(d.text)]
       ELSE [exc |-> "UnicodeDecodeError", text |-> <<>>]

read_file(f, h, filepath, encoding, is_binary) ==
    LET mode == IF is_binary THEN "rb" ELSE "r"
        e == builtin_open_err(f, filepath, mode, encoding)
    IN IF e # "none" THEN Result(e, None, f, h)
       ELSE IF is_binary
            THEN Result("none", [type |-> "bytes", val |-> Data(f, filepath)], f, h)
       ELSE LET r == text_read(f, filepath, encoding)
            IN IF r.exc # "none" THEN Result(r.exc, None, f, h)
               ELSE Result("none", [type |-> "str", val |-> r.text], f, h)

read_file_lines(f, h, filepath, encoding) ==
    LET context == read_file(f, h, filepath, encoding, FALSE)
    IN IF context.exc # "none" THEN context
       ELSE Result("none", [type |-> "list", val |-> str_split(context.ret.val, LF)], f, h)

\* ------------------------------------------------------------- copying
\* shutil.copyfile(src, dst): [exc, fs]
shutil_copyfile(f, src, dst) ==
    LET ks == Kind(f, src)
        kd == Kind(f, dst)
        we == OpenWriteErr(f, dst)
    IN IF ks \in {"file", "dir"} /\ kd = ks /\ rstrip_sep(src) = rstrip_sep(dst)
       THEN [exc |-> "SameFileError", fs |-> f]
       ELSE IF OpenReadErr(f, src) # "none" THEN [exc |-> OpenReadErr(f, src), fs |-> f]
       ELSE IF we = "IsADirectoryError" /\ kd = "none"
            THEN [exc |-> "FileNotFoundError", fs |-> f]
       ELSE IF we # "none" THEN [exc |-> we, fs |-> f]
       ELSE [exc |-> "none", fs |-> FsWrite(f, dst, Data(f, src))]

\* faulty variant: the test on the base name of dest is inverted
copy_file_dest_inverted(src, dest) ==
    IF os_path_basename(dest) = <<>> THEN os_path_join(dest, os_path_basename(src))
    ELSE dest

\* the path copy_file hands to shutil.copyfile
copy_file_dest(src, dest) ==
    IF os_path_basename(dest) # <<>> THEN os_path_join(dest, os_path_basename(src))
    ELSE dest

copy_file(f, h, src, dest) ==
    LET r == shutil_copyfile(f, src, copy_file_dest(src, dest))
    IN Result(r.exc, None, r.fs, h)

\* ----------------------------------------------------------- copy_files
raise_fnf_error(path, f, h) == Raise("FileNotFoundError", path, f, h)

\* [exc, arg]: the outcome of the directory check
validate_path_dir(f, path) ==
    LET r == os_path_isdir(f, StrType)
    IN IF r.exc # "none" THEN [exc |-> r.exc, arg |-> <<>>]
       ELSE IF ~r.val THEN [exc |-> "FileNotFoundError", arg |-> path]
       ELSE [exc |-> "none", arg |-> <<>>]

\* [i for i, item in enumerate(l) if not os.path.isfile(item)], from index i
RECURSIVE none_file_idx(_, _, _)
none_file_idx(f, l, i) ==
    IF i > Len(l) THEN <<>>
    ELSE (IF os_path_isfile(f, l[i]) THEN <<>> ELSE <<i>>) \o none_file_idx(f, l, i + 1)

\* [l.pop(i) for i in idxs]: [exc, list, out]
RECURSIVE pop_each(_, _)
pop_each(l, idxs) ==
    IF idxs = <<>> THEN [exc |-> "none", list |-> l, out |-> <<>>]
    ELSE LET i == Head(idxs)
         IN IF i \notin 1..Len(l) THEN [exc |-> "IndexError", list |-> l, out |-> <<>>]
            ELSE LET r == pop_each(SubSeq(l, 1, i - 1) \o SubSeq(l, i + 1, Len(l)), Tail(idxs))
                 IN [exc |-> r.exc, list |-> r.list, out |-> <<l[i]>> \o r.out]

\* faulty variant: the indices are popped in ascending order
pop_order_ascending(idxs) == idxs

\* the order in which the indices are popped
pop_order(idxs) == Reverse(idxs)

\* the list object h[ref] is filtered in place
pop_none_file_paths(f, h, ref) ==
    LET none_file_idx_list == pop_order(none_file_idx(f, h[ref], 1))
        r == pop_each(h[ref], none_file_idx_list)
        h1 == [h EXCEPT ![ref] = r.list]
    IN IF r.exc # "none" THEN Result(r.exc, None, f, h1)
       ELSE Result("none", [type |-> "list", val |-> Reverse(r.out)], f, h1)

\* sep.join(l)
RECURSIVE str_join(_, _)
str_join(sep, l) ==
    IF l = <<>> THEN <<>>
    ELSE IF Len(l) = 1 THEN l[1]
    ELSE l[1] \o sep \o str_join(sep, Tail(l))

\* for src in l: shutil.copyfile(src, join(dest_dir, basename(src)))
RECURSIVE copy_each(_, _, _)
copy_each(f, l, dest_dir) ==
    IF l = <<>> THEN [exc |-> "none", fs |-> f]
    ELSE LET r == shutil_copyfile(f, Head(l), os_path_join(dest_dir, os_path_basename(Head(l))))
         IN IF r.exc # "none" THEN r ELSE copy_each(r.fs, Tail(l), dest_dir)

\* the heap after file_path_list = src_list.copy()
list_copy(h, ref, new) == [r \in DOMAIN h \cup {new} |-> IF r = new THEN h[ref] ELSE h[r]]

\* the objects of h1 the caller still holds
Caller(h, h1) == [r \in DOMAIN h |-> h1[r]]

\* faulty variant: the caller's list is filtered, and before the directory check
copy_files_in_place(f, h, dest_dir, ignore_none_file) ==
    LET p == pop_none_file_paths(f, h, "src_list")
        v == validate_path_dir(f, dest_dir)
    IN IF v.exc # "none" THEN Raise(v.exc, v.arg, f, p.heap)
       ELSE IF p.ret.val # <<>> /\ ~ignore_none_file
            THEN raise_fnf_error(str_join(<<",", " ">>, p.ret.val), f, p.heap)
       ELSE LET c == copy_each(f, p.heap["src_list"], dest_dir)
            IN Result(c.exc, None, c.fs, p.heap)

copy_files(f, h, dest_dir, ignore_none_file) ==
    LET v == validate_path_dir(f, dest_dir)
    IN IF v.exc # "none" THEN Raise(v.exc, v.arg, f, h)
       ELSE LET h1 == list_copy(h, "src_list", "file_path_list")
                p == pop_none_file_paths(f, h1, "file_path_list")
            IN IF p.exc # "none" THEN Result(p.exc, None, f, Caller(h, p.heap))
               ELSE IF p.ret.val # <<>> /\ ~ignore_none_file
                    THEN raise_fnf_error(str_join(<<",", " ">>, p.ret.val), f, Caller(h, p.heap))
               ELSE LET c == copy_each(f, p.heap["file_path_list"], dest_dir)
                    IN Result(c.exc, None, c.fs, Caller(h, p.heap))

\* -------------------------------------------------- convert_file_charset
convert_file_charset(f, h, src_path, dest_path, src_encoding, dest_encoding) ==
    LET e1 == builtin_open_err(f, src_path, "r", src_encoding)
        e2 == builtin_open_err(f, dest_path, "w", dest_encoding)
        f1 == FsWrite(f, dest_path, <<>>)
        r == text_read(f1, src_path, src_encoding)
        w == encode(r.text, dest_encoding)
    IN IF e1 # "none" THEN Result(e1, None, f, h)
       ELSE IF e2 # "none" THEN Result(e2, None, f, h)
       ELSE IF r.exc # "none" THEN Result(r.exc, None, f1, h)
       ELSE IF ~w.ok THEN Result("UnicodeEncodeError", None, f1, h)
       ELSE Result("none", None, FsWrite(f1, dest_path, w.data), h)

\* ---------------------------------------------------------------- glob
\* fnmatch.fnmatch(name, pat) for patterns of literals, "?" and "*"
RECURSIVE fnmatch(_, _)
fnmatch(name, pat) ==
    IF pat = <<>> THEN name = <<>>
    ELSE IF pat[1] = "*"
         THEN fnmatch(name, Tail(pat)) \/ (name # <<>> /\ fnmatch(Tail(name), pat))
    ELSE name # <<>> /\ (pat[1] = "?" \/ pat[1] = name[1]) /\ fnmatch(Tail(name), Tail(pat))

glob_ishidden(path) == path # <<>> /\ path[1] = "."

\* the names of the entries of directory d
Entries(f, d) ==
    IF Kind(f, d) # "dir" THEN {}
    ELSE {os_path_basename(q) : q \in {x \in DOMAIN f : os_path_dirname(x) = rstrip_sep(d)}}

\* the orders in which os.listdir(d) may return the entries
os_listdir(f, d) ==
    LET E == Entries(f, d)
    IN {l \in SeqsUpTo(E, Cardinality(E)) : Len(l) = Cardinality(E) /\ Range(l) = E}

\* faulty variant: hidden names are not filtered out
glob1_with_hidden(listing, pattern) == SelectSeq(listing, LAMBDA x : fnmatch(x, pattern))

\* glob._glob1(dirname, pattern) over the listing
glob1(listing, pattern) ==
    LET visible == IF glob_ishidden(pattern) THEN listing
                   ELSE SelectSeq(listing, LAMBDA x : ~glob_ishidden(x))
    IN SelectSeq(visible, LAMBDA x : fnmatch(x, pattern))

\* glob.glob(pathname) for a pathname with a literal directory part
glob_glob(pathname, listing) ==
    LET dirname == os_path_dirname(pathname)
        names == glob1(listing, os_path_basename(pathname))
    IN [i \in 1..Len(names) |-> os_path_join(dirname, names[i])]

\* '{}/{}*{}'.format(src_dir, suffix, prefix)
glob_pattern(src_dir, suffix, prefix) == src_dir \o <<"/">> \o suffix \o <<"*">> \o prefix

get_file_list(f, h, src_dir, suffix, prefix, listing) ==
    Result("none", [type |-> "list", val |-> glob_glob(glob_pattern(src_dir, suffix, prefix), listing)], f, h)

\* ---------------------------------------------------------- environment
Pd == <<"/", "d">>
Po == <<"/", "o">>
Px == <<"/", "x">>
Fda == <<"/", "d", "/", "a">>
Fdab == <<"/", "d", "/", "a", "b">>
Fdh == <<"/", "d", "/", ".", "a">>
Foa == <<"/", "o", "/", "a">>

Absent == <<-1>>

\* "a\r\nb", a lone 0xE9, U+00E9 and U+0100 in UTF-8
Samples == {<<97, CR, LF, 98>>, <<233>>, <<195, 169>>, <<196, 128>>}

Contents == SeqsUpTo({97, CR, LF}, MaxBytes) \cup Samples

Opt(p, d) == IF d = Absent THEN {} ELSE {<<p, FileNode(d)>>}

MkFs(E) == [p \in {e[1] : e \in E} |-> (CHOOSE e \in E : e[1] = p)[2]]

\* /d is a directory holding any of a, ab and .a; /o is missing, an empty
\* directory or a directory holding a
InitFs ==
    {MkFs({<<Pd, DirNode>>} \cup Opt(Fda, ca) \cup Opt(Fdab, cab) \cup Opt(Fdh, ch) \cup o) :
        ca \in Contents \cup {Absent}, cab \in {Absent, <<98>>}, ch \in {Absent, <<97>>},
        o \in {{}, {<<Po, DirNode>>}, {<<Po, DirNode>>, <<Foa, FileNode(<<111>>)>>}}}

Encodings == {"utf-8", "latin-1"}
SrcLists == SeqsUpTo({Fda, Fdab, Px}, MaxLen)
Affixes == {<<>>, <<"a">>, <<"b">>, <<".">>, <<"?">>}

Init ==
    /\ fs \in InitFs
    /\ fs0 = fs
    /\ heap = [src_list |-> <<>>]
    /\ pc = "idle"
    /\ call = [fn |-> "none"]
    /\ ret = None
    /\ exc = "none"
    /\ exc_arg = <<>>

\* the call c returns (or raises) r
Return(c, r) ==
    /\ pc' = "returned"
    /\ call' = c
    /\ fs0' = fs
    /\ fs' = r.fs
    /\ heap' = r.heap
    /\ ret' = r.ret
    /\ exc' = r.exc
    /\ exc_arg' = r.arg

GetFileList ==
    /\ pc = "idle"
    /\ \E src_dir \in {Pd, Po, Px, Fda}, suffix \in Affixes, prefix \in Affixes :
           \E listing \in os_listdir(fs, os_path_dirname(glob_pattern(src_dir, suffix, prefix))) :
               Return([fn |-> "get_file_list", src_dir |-> src_dir, suffix |-> suffix, prefix |-> prefix],
                      get_file_list(fs, heap, src_dir, suffix, prefix, listing))

ReadFile ==
    /\ pc = "idle"
    /\ \E filepath \in {Fda, Fdab, Pd, Px}, encoding \in Encodings \cup {"None"}, is_binary \in BOOLEAN :
           /\ encoding = "None" => is_binary
           /\ Return([fn |-> "read_file", filepath |-> filepath, encoding |-> encoding, is_binary |-> is_binary],
                     read_file(fs, heap, filepath, encoding, is_binary))

ReadFileLines ==
    /\ pc = "idle"
    /\ \E filepath \in {Fda, Fdab, Pd, Px}, encoding \in Encodings :
           Return([fn |-> "read_file_lines", filepath |-> filepath, encoding |-> encoding],
                  read_file_lines(fs, heap, filepath, encoding))

CopyFile ==
    /\ pc = "idle"
    /\ \E src \in {Fda, Fdh, Pd, Px}, dest \in {Po, Po \o <<"/">>, Pd, Fda, Foa, Px, <<>>} :
           Return([fn |-> "copy_file", src |-> src, dest |-> dest], copy_file(fs, heap, src, dest))

CopyFiles ==
    /\ pc = "idle"
    /\ \E src_list \in SrcLists, dest_dir \in {Po, Px, Fda}, ignore_none_file \in BOOLEAN :
           Return([fn |-> "copy_files", src_list |-> src_list, dest_dir |-> dest_dir,
                   ignore_none_file |-> ignore_none_file],
                  copy_files(fs, [src_list |-> src_list], dest_dir, ignore_none_file))

ConvertFileCharset ==
    /\ pc = "idle"
    /\ \E src_path \in {Fda, Fdab, Px}, dest_path \in {Fda, Fdab, Foa, Pd},
          src_encoding \in Encodings, dest_encoding \in Encodings :
           Return([fn |-> "convert_file_charset", src_path |-> src_path, dest_path |-> dest_path,
                   src_encoding |-> src_encoding, dest_encoding |-> dest_encoding],
                  convert_file_charset(fs, heap, src_path, dest_path, src_encoding, dest_encoding))

PopNoneFilePaths ==
    /\ pc = "idle"
    /\ \E file_path_list \in SrcLists :
           Return([fn |-> "pop_none_file_paths", file_path_list |-> file_path_list],
                  pop_none_file_paths(fs, [src_list |-> file_path_list], "src_list"))

Next ==
    \/ GetFileList
    \/ ReadFile
    \/ ReadFileLines
    \/ CopyFile
    \/ CopyFiles
    \/ ConvertFileCharset
    \/ PopNoneFilePaths

Spec == Init /\ [][Next]_vars

\* ================================================================ claims
Returned(fn) == pc = "returned" /\ call.fn = fn

IsFile0(p) == p \in DOMAIN fs0 /\ fs0[p].kind = "file"
IsDir0(p) == p \in DOMAIN fs0 /\ fs0[p].kind = "dir"

Missing0(l) == SelectSeq(l, LAMBDA p : ~IsFile0(p))
Existing0(l) == SelectSeq(l, LAMBDA p : IsFile0(p))

Count(x, l) == Cardinality({i \in 1..Len(l) : l[i] = x})

\* the part of p after its last "/"
BaseName(p) ==
    LET n == CHOOSE k \in 0..Len(p) :
                 /\ \A i \in (Len(p) - k + 1)..Len(p) : p[i] # "/"
                 /\ k = Len(p) \/ p[Len(p) - k] = "/"
    IN SubSeq(p, Len(p) - n + 1, Len(p))

Under(dir, name) == dir \o <<"/">> \o name

RECURSIVE JoinCommaSpace(_)
JoinCommaSpace(l) ==
    IF Len(l) = 0 THEN <<>>
    ELSE IF Len(l) = 1 THEN l[1]
    ELSE JoinCommaSpace(SubSeq(l, 1, Len(l) - 1)) \o <<",", " ">> \o l[Len(l)]

\* C1: copy_files with a missing source, ignore_missing = false and an
\* existing dest_dir fails with FileNotFoundError naming all missing paths
\* joined by ", " in src_list order, and the file system is unchanged.
C1_MissingRaisesNotFound ==
    (Returned("copy_files") /\ ~call.ignore_none_file /\ IsDir0(call.dest_dir)
        /\ Missing0(call.src_list) # <<>>)
    => /\ exc = "FileNotFoundError"
       /\ exc_arg = JoinCommaSpace(Missing0(call.src_list))
       /\ fs = fs0

\* C2: copy_files with ignore_missing = true and an existing dest_dir
\* returns without error; dest_dir then holds a copy of every existing
\* source under its base name and no new entry for a missing one.
C2_IgnoreMissingCopiesExisting ==
    (Returned("copy_files") /\ call.ignore_none_file /\ IsDir0(call.dest_dir))
    => /\ exc = "none"
       /\ \A i \in 1..Len(call.src_list) :
            LET src == call.src_list[i]
                dst == Under(call.dest_dir, BaseName(src))
            IN IF IsFile0(src)
               THEN dst \in DOMAIN fs /\ fs[dst] = FileNode(fs0[src].data)
               ELSE dst \in DOMAIN fs => dst \in DOMAIN fs0

\* C3: the directory check of copy_files decides on dest_dir: it passes
\* when dest_dir is an existing directory, and otherwise copy_files fails
\* with FileNotFoundError carrying dest_dir before anything is changed.
C3_DirCheckOnArgument ==
    Returned("copy_files")
    => IF IsDir0(call.dest_dir)
       THEN exc # "TypeError" /\ ~(exc = "FileNotFoundError" /\ exc_arg = call.dest_dir)
       ELSE exc = "FileNotFoundError" /\ exc_arg = call.dest_dir /\ fs = fs0

\* C4: on an existing file read_file(binary = true) with the default
\* encoding returns the file's bytes unmodified, read_file(binary = false)
\* returns the content decoded with the encoding, and neither fails on a
\* validly encoded file.
C4_ReadFileReturnsContent ==
    (Returned("read_file") /\ IsFile0(call.filepath))
    => IF call.is_binary
       THEN call.encoding = "utf-8"
            => exc = "none" /\ ret = [type |-> "bytes", val |-> fs0[call.filepath].data]
       ELSE decode(fs0[call.filepath].data, call.encoding).ok
            => /\ exc = "none"
               /\ ret = [type |-> "str", val |-> decode(fs0[call.filepath].data, call.encoding).text]

\* the decoded content of the file read by the call
Text0 == decode(fs0[call.filepath].data, call.encoding).text

Flatten(ls) == str_join(<<>>, ls)

\* C5 (as claimed): read_file_lines keeps carriage returns: "a\r\nb" gives
\* ["a\r", "b"], every '\r' of the content is in the returned lines and
\* the lines joined by '\n' are the decoded content.
C5_KeepsCarriageReturns ==
    (Returned("read_file_lines") /\ exc = "none")
    => /\ Text0 = <<97, CR, LF, 98>> => ret.val = <<<<97, CR>>, <<98>>>>
       /\ Count(CR, Flatten(ret.val)) = Count(CR, Text0)
       /\ str_join(<<LF>>, ret.val) = Text0

\* the positions of t that start a line break: a '\r', or a '\n' that does
\* not follow a '\r'
Breaks(t) == {i \in 1..Len(t) : t[i] = CR \/ (t[i] = LF /\ (i = 1 \/ t[i - 1] # CR))}

\* t with every "\r\n" and every other '\r' replaced by '\n'
Normalised(t) ==
    LET keep == SelectSeq([i \in 1..Len(t) |-> i],
                          LAMBDA i : ~(t[i] = LF /\ i > 1 /\ t[i - 1] = CR))
    IN [k \in 1..Len(keep) |-> IF t[keep[k]] = CR THEN LF ELSE t[keep[k]]]

\* C5 (amended): read_file_lines splits the text as read in universal
\* newlines mode: "a\r\nb" gives ["a", "b"], no returned line holds a '\r'
\* or a '\n', there is one more line than line breaks ("\r\n", '\r', '\n')
\* and the lines joined by '\n' are the decoded content with every "\r\n"
\* and '\r' replaced by '\n'.
C5_SplitsUniversalNewlines ==
    (Returned("read_file_lines") /\ exc = "none")
    => /\ ret.type = "list"
       /\ Text0 = <<97, CR, LF, 98>> => ret.val = <<<<97>>, <<98>>>>
       /\ \A i \in 1..Len(ret.val) : CR \notin Range(ret.val[i]) /\ LF \notin Range(ret.val[i])
       /\ Len(ret.val) = 1 + Cardinality(Breaks(Text0))
       /\ str_join(<<LF>>, ret.val) = Normalised(Text0)

C5_Witness ==
    /\ Returned("read_file_lines") /\ exc = "none"
    /\ fs0[call.filepath].data = <<97, CR, LF, 98>>
    /\ ret.val = <<<<97>>, <<98>>>>

\* the path C6 names as the target of the copy
C6Target ==
    IF call.dest # <<>> /\ call.dest[Len(call.dest)] # "/"
    THEN Under(call.dest, BaseName(call.src))
    ELSE call.dest

Names0(d) ==
    {SubSeq(q, Len(d) + 2, Len(q)) :
        q \in {x \in DOMAIN fs0 : /\ Len(x) > Len(d) + 1
                                  /\ SubSeq(x, 1, Len(d) + 1) = d \o <<"/">>
                                  /\ \A i \in (Len(d) + 2)..Len(x) : x[i] # "/"}}

BeginsWith(n, a) == Len(n) >= Len(a) /\ SubSeq(n, 1, Len(a)) = a
EndsWith(n, a) == Len(n) >= Len(a) /\ SubSeq(n, Len(n) - Len(a) + 1, Len(n)) = a

\* the second positional argument of get_file_list is the head of the
\* pattern (the claim's prefix), the third its tail (the claim's suffix)
ArgPrefix == call.suffix
ArgSuffix == call.prefix

\* C7 (as claimed): list_files(D, prefix, suffix) returns exactly the paths
\* of the entries of D whose name begins with prefix and ends with suffix,
\* names beginning with '.' included, and an empty sequence when D does not
\* exist.
C7_ListsEveryMatch ==
    Returned("get_file_list")
    => /\ exc = "none"
       /\ IsDir0(call.src_dir)
            => Range(ret.val) = {Under(call.src_dir, n) :
                                    n \in {m \in Names0(call.src_dir) :
                                              BeginsWith(m, ArgPrefix) /\ EndsWith(m, ArgSuffix)}}
       /\ call.src_dir \notin DOMAIN fs0 => ret.val = <<>>

Literal(a) == \A i \in 1..Len(a) : a[i] \notin {"*", "?", "[", "/"}

\* C7 (amended): for prefix and suffix free of glob metacharacters,
\* list_files(D, prefix, suffix) returns, each once, exactly the paths of
\* the entries of D whose name is prefix, then any characters, then suffix
\* (prefix and suffix do not overlap), except that a name beginning with
\* '.' is returned only when prefix is not empty; it returns an empty
\* sequence when D does not exist.
C7_ListsGlobMatches ==
    (Returned("get_file_list") /\ Literal(ArgPrefix) /\ Literal(ArgSuffix))
    => /\ exc = "none"
       /\ ret.type = "list"
       /\ IsDir0(call.src_dir)
            => /\ Range(ret.val) =
                    {Under(call.src_dir, n) :
                        n \in {m \in Names0(call.src_dir) :
                                  /\ BeginsWith(m, ArgPrefix) /\ EndsWith(m, ArgSuffix)
                                  /\ Len(m) >= Len(ArgPrefix) + Len(ArgSuffix)
                                  /\ m[1] = "." => ArgPrefix # <<>>}}
               /\ Cardinality(Range(ret.val)) = Len(ret.val)
       /\ call.src_dir \notin DOMAIN fs0 => ret.val = <<>>

C7_Witness ==
    /\ Returned("get_file_list") /\ call.src_dir = Pd /\ ArgPrefix = <<>> /\ ArgSuffix = <<"a">>
    /\ Fda \in DOMAIN fs0 /\ Fdh \in DOMAIN fs0
    /\ ret.val = <<Fda>>

\* C8: the existence pre-check is an order-preserving partition: the list
\* keeps exactly its existing files in order, the returned list holds
\* exactly the other entries in order, and nothing is lost or duplicated.
C8_PopPartition ==
    Returned("pop_none_file_paths")
    => /\ exc = "none"
       /\ heap["src_list"] = Existing0(call.file_path_list)
       /\ ret = [type |-> "list", val |-> Missing0(call.file_path_list)]
       /\ \A p \in Range(call.file_path_list) :
            Count(p, call.file_path_list) = Count(p, heap["src_list"]) + Count(p, ret.val)

C8_Witness ==
    /\ Returned("pop_none_file_paths")
    /\ call.file_path_list = <<Px, Px, Fda>>
    /\ IsFile0(Fda)
    /\ heap["src_list"] = <<Fda>> /\ ret.val = <<Px, Px>>

C10_ReadsBeforeTruncating ==
    Returned("convert_file_charset")
    => /\ (~IsFile0(call.src_path) \/ exc = "UnicodeDecodeError") => fs = fs0
       /\ (exc = "none" /\ call.dest_path = call.src_path)
            => LET t == decode(fs0[call.src_path].data, call.src_encoding).text
               IN fs[call.dest_path].data \in
                      {encode(t, call.dest_encoding).data,
                       encode(Normalised(t), call.dest_encoding).data}

====
